---------------------------- MODULE Spec2Model ----------------------------
(***************************************************************************)
(* A model of the rust-rays path tracer: the scene-intersection protocol   *)
(* (sphere, plane, pair, list, reference), the reflection distributions,   *)
(* the per-pixel bounce loop with Russian roulette and the chunked         *)
(* scheduling of pixels over worker threads.                               *)
(*                                                                         *)
(* f32 values are modelled as exact rationals <<n, d>> (d > 0, lowest      *)
(* terms).  A square root is taken only of a rational that has a rational  *)
(* root; a query whose discriminant has none, or whose numbers leave the   *)
(* explored range, is outside the explored domain (Representable).         *)
(***************************************************************************)
EXTENDS Integers, Sequences, FiniteSets

(***************************************************************************)
(* Exact arithmetic standing for f32                                       *)
(***************************************************************************)
\* The element of a singleton set.  An operand bound through a singleton set,
\* The({F(x) : x \in {e}}), is evaluated once however often F uses it.
The(S) == CHOOSE x \in S : TRUE

Abs(n) == IF n < 0 THEN -n ELSE n

RECURSIVE GCD(_, _)
GCD(a, b) == IF b = 0 THEN a ELSE The({GCD(y, x % y) : x \in {a}, y \in {b}})

\* the rational n/d in lowest terms with a positive denominator (d # 0)
RQ(n, d) ==
    LET g == GCD(Abs(n), Abs(d))
        s == IF d < 0 THEN -1 ELSE 1
    IN  <<(s * n) \div g, (s * d) \div g>>

R(n) == <<n, 1>>

\* sums over the least common denominator and products with the common factors
\* taken out first, so that intermediate integers stay small
AddOver(x, y, g) == RQ(x[1] * (y[2] \div g) + y[1] * (x[2] \div g), (x[2] \div g) * y[2])
RAdd(p, q) ==
    The({The({AddOver(x, y, g) : g \in {GCD(x[2], y[2])}}) : x \in {p}, y \in {q}})
RNeg(p) == The({<<-x[1], x[2]>> : x \in {p}})
RSub(p, q) == RAdd(p, RNeg(q))
MulOver(x, y, g, h) == <<(x[1] \div g) * (y[1] \div h), (x[2] \div h) * (y[2] \div g)>>
RMul(p, q) ==
    The({The({MulOver(x, y, g, h) : g \in {GCD(Abs(x[1]), y[2])},
                                    h \in {GCD(Abs(y[1]), x[2])}}) :
         x \in {p}, y \in {q}})
\* the reciprocal (q # 0)
RInv(q) == The({IF y[1] < 0 THEN <<-y[2], -y[1]>> ELSE <<y[2], y[1]>> : y \in {q}})
RDiv(p, q) == RMul(p, RInv(q))
RLt(p, q) == \E x \in {p}, y \in {q} : x[1] * y[2] < y[1] * x[2]
RGt(p, q) == RLt(q, p)
RLe(p, q) == ~RLt(q, p)
RIsZero(p) == p[1] = 0

RECURSIVE SqrtSearch(_, _, _)
SqrtSearch(n, lo, hi) ==
    IF lo >= hi THEN lo
    ELSE The({IF mid * mid <= n THEN SqrtSearch(n, mid, hi)
              ELSE SqrtSearch(n, lo, mid - 1) : mid \in {(lo + hi + 1) \div 2}})

\* floor of the square root of a natural number
ISqrt(n) == The({SqrtSearch(m, 0, m) : m \in {n}})
IsSquare(n) == \E m \in {n} : m >= 0 /\ (\E r \in {ISqrt(m)} : r * r = m)

HasRSqrt(p) == \E x \in {p} : IsSquare(x[1]) /\ IsSquare(x[2])
RSqrt(p) == The({<<ISqrt(x[1]), ISqrt(x[2])>> : x \in {p}})

(***************************************************************************)
(* Vec3 and Point3: triples of rationals                                   *)
(***************************************************************************)
Vec3(x, y, z) == <<R(x), R(y), R(z)>>
Point3(x, y, z) == <<R(x), R(y), R(z)>>

Dot(u, v) ==
    The({RAdd(RAdd(RMul(a[1], b[1]), RMul(a[2], b[2])), RMul(a[3], b[3])) :
         a \in {u}, b \in {v}})
Mag2(u) == The({Dot(a, a) : a \in {u}})
VAdd(u, v) ==
    The({<<RAdd(a[1], b[1]), RAdd(a[2], b[2]), RAdd(a[3], b[3])>> : a \in {u}, b \in {v}})
VSub(u, v) ==
    The({<<RSub(a[1], b[1]), RSub(a[2], b[2]), RSub(a[3], b[3])>> : a \in {u}, b \in {v}})
VMul(u, k) ==
    The({<<RMul(a[1], c), RMul(a[2], c), RMul(a[3], c)>> : a \in {u}, c \in {k}})
VDiv(u, k) ==
    The({<<RDiv(a[1], c), RDiv(a[2], c), RDiv(a[3], c)>> : a \in {u}, c \in {k}})
VNeg(u) == The({<<RNeg(a[1]), RNeg(a[2]), RNeg(a[3])>> : a \in {u}})
PSub(p, q) == VSub(p, q)
PAdd(p, v) == VAdd(p, v)

Ray3(start, dir) == [start |-> start, dir |-> dir]

\* Option<T>: None is the empty sequence, Some(x) the one-element sequence
None == <<>>
Some(x) == <<x>>
IsSome(o) == Len(o) = 1
Unwrap(o) == o[1]


(***************************************************************************)
(* Distributions (distribution.rs, material.rs, scene.rs)                  *)
(*                                                                         *)
(* The random source is a tape of the uniform values in [0,1) it will      *)
(* hand out next; sampling returns the output and the rest of the tape.    *)
(***************************************************************************)
Const(value) == [kind |-> "Const", value |-> value]

DiffuseDist(point, normal, object) ==
    [kind |-> "DiffuseDist", point |-> point, normal |-> normal, object |-> object]

OptA(x) == [opt |-> "OptA", inner |-> x]
OptB(x) == [opt |-> "OptB", inner |-> x]
Choice(opt, x) == [kind |-> "Choice", opt |-> opt, inner |-> x]

TagObject(tag, dist) == [kind |-> "TagObject", tag |-> tag, dist |-> dist]

\* a.or(b, pB)
Or(inner_1, inner_2, prob_2) ==
    [kind |-> "Or", inner_1 |-> inner_1, inner_2 |-> inner_2, prob_2 |-> prob_2]

\* Range::new(low, high).ind_sample(rng): low + (high - low) * u
RangeSample(low, high, u) == RAdd(low, RMul(RSub(high, low), u))

\* cos and sin of the angle 2*pi*u, for the quarter turns
QuarterTurns == {<<0, 1>>, <<1, 4>>, <<1, 2>>, <<3, 4>>}
CosTurn(u) == CASE u = <<0, 1>> -> R(1) [] u = <<1, 2>> -> R(-1) [] OTHER -> R(0)
SinTurn(u) == CASE u = <<1, 4>> -> R(1) [] u = <<3, 4>> -> R(-1) [] OTHER -> R(0)

\* rand_sphere: z uniform in [-1,1), r = sqrt(1 - z*z), angle uniform in [0, 2*pi)
RandSphere(u1, u2) ==
    LET z == RangeSample(R(-1), R(1), u1)
        r == RSqrt(RSub(R(1), RMul(z, z)))
    IN  <<RMul(r, CosTurn(u2)), RMul(r, SinTurn(u2)), z>>

RandSphereRepresentable(u1, u2) ==
    LET z == RangeSample(R(-1), R(1), u1)
    IN  HasRSqrt(RSub(R(1), RMul(z, z))) /\ u2 \in QuarterTurns

DiffuseSample(dist, tape) ==
    LET cand_dir == RandSphere(tape[1], tape[2])
        dir == IF RLt(Dot(cand_dir, dist.normal), R(0)) THEN VNeg(cand_dir) ELSE cand_dir
        scale == RDiv(Dot(dir, dist.normal), RSqrt(Mag2(dist.normal)))
    IN  [out |-> <<scale, Ray3(dist.point, dir), dist.object>>,
         rest |-> SubSeq(tape, 3, Len(tape))]

\* ConstSample taking one value from the random source
ConstSampleDrawing(dist, tape) == [out |-> dist.value, rest |-> Tail(tape)]

ConstSample(dist, tape) == [out |-> dist.value, rest |-> tape]

RECURSIVE Sample(_, _)
ChoiceSample(dist, tape) ==
    The({[out |-> <<s.out[1], s.out[2],
                    IF dist.opt = "OptA" THEN OptA(s.out[3]) ELSE OptB(s.out[3])>>,
          rest |-> s.rest] : s \in {Sample(dist.inner, tape)}})

TagObjectSample(dist, tape) ==
    The({[out |-> <<s.out[1], s.out[2], [index |-> dist.tag, obj |-> s.out[3]]>>,
          rest |-> s.rest] : s \in {Sample(dist.dist, tape)}})

\* OrSample taking the second distribution also when the value drawn equals prob_2
OrSampleInclusive(dist, tape) ==
    IF RLe(Head(tape), dist.prob_2) THEN Sample(dist.inner_2, Tail(tape))
    ELSE Sample(dist.inner_1, Tail(tape))

OrSample(dist, tape) ==
    IF RLt(Head(tape), dist.prob_2) THEN Sample(dist.inner_2, Tail(tape))
    ELSE Sample(dist.inner_1, Tail(tape))

Sample(dist, tape) ==
    CASE dist.kind = "Const" -> ConstSample(dist, tape)
      [] dist.kind = "Or" -> OrSample(dist, tape)
      [] dist.kind = "DiffuseDist" -> DiffuseSample(dist, tape)
      [] dist.kind = "Choice" -> ChoiceSample(dist, tape)
      [] dist.kind = "TagObject" -> TagObjectSample(dist, tape)

\* the sample is computable in exact arithmetic from this tape
RECURSIVE SampleRepresentable(_, _)
SampleRepresentable(dist, tape) ==
    CASE dist.kind = "Const" -> TRUE
      [] dist.kind = "DiffuseDist" ->
            /\ Len(tape) >= 2
            /\ RandSphereRepresentable(tape[1], tape[2])
            /\ ~RIsZero(Mag2(dist.normal))
            /\ HasRSqrt(Mag2(dist.normal))
      [] dist.kind = "Choice" -> SampleRepresentable(dist.inner, tape)
      [] dist.kind = "TagObject" -> SampleRepresentable(dist.dist, tape)
      [] dist.kind = "Or" ->
            /\ Len(tape) >= 1
            /\ SampleRepresentable(IF RLt(Head(tape), dist.prob_2) THEN dist.inner_2
                                    ELSE dist.inner_1, Tail(tape))

\* how many values of the random source sampling the distribution takes
SampleDraws(d) == 2 - Len(Sample(d, <<R(0), R(0)>>).rest)

(***************************************************************************)
(* Materials and reflections (material.rs)                                 *)
(***************************************************************************)
Material(reflection, emitted_radiance) ==
    [reflection |-> reflection, emitted_radiance |-> emitted_radiance]

DiffuseReflect(incoming, normal, point, object) == DiffuseDist(point, normal, object)

SpecularReflect(incoming, normal, point, object) ==
    The({Const(<<R(1),
                 Ray3(point, VSub(VNeg(incoming), VMul(projected, R(2)))),
                 object>>) :
         projected \in {The({VDiv(VMul(n, Dot(incoming, n)), Mag2(n)) : n \in {normal}})}})

Reflect(refl, incoming, normal, point, object) ==
    IF refl = "Specular" THEN SpecularReflect(incoming, normal, point, object)
    ELSE DiffuseReflect(incoming, normal, point, object)

(***************************************************************************)
(* Scene nodes and the intersection protocol (scene.rs, sphere.rs,         *)
(* plane.rs)                                                               *)
(***************************************************************************)
\* SphereSource, and the unit identity () of a plane
Inside == [source |-> "Inside"]
Outside == [source |-> "Outside"]
Unit == [unit |-> "()"]

Intersection(time, emitted, reflection) ==
    [time |-> time, emitted |-> emitted, reflection |-> reflection]

Sphere(center, radius, material) ==
    [kind |-> "Sphere", center |-> center, radius |-> radius, material |-> material]
Plane(origin, normal, material) ==
    [kind |-> "Plane", origin |-> origin, normal |-> normal, material |-> material]
Pair(a, b) == [kind |-> "Pair", a |-> a, b |-> b]
List(items) == [kind |-> "List", items |-> items]
Ref(inner) == [kind |-> "Ref", inner |-> inner]

\* the coefficients of the ray-sphere quadratic
SphereA(s, ray) == Mag2(ray.dir)
SphereB(s, ray) == RMul(R(2), Dot(PSub(ray.start, s.center), ray.dir))
SphereC(s, ray) == RSub(Mag2(PSub(ray.start, s.center)), RMul(s.radius, s.radius))
Descrim(s, ray) ==
    RSub(RMul(SphereB(s, ray), SphereB(s, ray)),
         RMul(R(4), RMul(SphereA(s, ray), SphereC(s, ray))))

\* the intersection at a root of the quadratic: the point, the normal there,
\* the identity (the previous one, or Inside when the ray starts in the sphere)
SphereHit(s, ray, previous, c, time) ==
    The({Some(Intersection(time, s.material.emitted_radiance,
                  Reflect(s.material.reflection, ray.dir, PSub(p, s.center), p, id))) :
         p \in {PAdd(ray.start, VMul(ray.dir, time))},
         id \in {IF IsSome(previous) THEN Unwrap(previous)
                 ELSE IF RLt(c, R(0)) THEN Inside ELSE Outside}})

\* SphereRoots taking t1 whenever t1 > 0, whatever the previous identity
SphereRootsNearest(s, ray, previous, a, b, c, descrim) ==
    The({IF RGt(t1, R(0)) THEN SphereHit(s, ray, previous, c, t1)
         ELSE IF RGt(t2, R(0)) THEN SphereHit(s, ray, previous, c, t2)
         ELSE None :
         t1 \in {RDiv(RSub(RNeg(b), RSqrt(descrim)), RMul(R(2), a))},
         t2 \in {RDiv(RAdd(RNeg(b), RSqrt(descrim)), RMul(R(2), a))}})

\* t1 if there is no previous identity and t1 > 0, else t2 if t2 > 0
SphereRoots(s, ray, previous, a, b, c, descrim) ==
    The({IF previous = None /\ RGt(t1, R(0)) THEN SphereHit(s, ray, previous, c, t1)
         ELSE IF RGt(t2, R(0)) THEN SphereHit(s, ray, previous, c, t2)
         ELSE None :
         t1 \in {RDiv(RSub(RNeg(b), RSqrt(descrim)), RMul(R(2), a))},
         t2 \in {RDiv(RAdd(RNeg(b), RSqrt(descrim)), RMul(R(2), a))}})

\* the quadratic solved
SphereSolve(s, ray, previous) ==
    The({IF RLt(descrim, R(0)) THEN None
         \* a zero direction makes both roots 0/0 = NaN, and NaN > 0. is false
         ELSE IF RIsZero(a) THEN None
         ELSE SphereRoots(s, ray, previous, a, b, c, descrim) :
         a \in {SphereA(s, ray)}, b \in {SphereB(s, ray)}, c \in {SphereC(s, ray)},
         descrim \in {Descrim(s, ray)}})

\* SphereIntersect without the early return on previous = Outside
SphereIntersectUnguarded(s, ray, previous) == SphereSolve(s, ray, previous)

SphereIntersect(s, ray, previous) ==
    IF previous = Some(Outside) THEN None ELSE SphereSolve(s, ray, previous)

\* the intersection at a positive time
PlaneHit(pl, ray, time) ==
    IF RGt(time, R(0))
    THEN Some(Intersection(time, pl.material.emitted_radiance,
             Reflect(pl.material.reflection, ray.dir, pl.normal,
                     PAdd(ray.start, VMul(ray.dir, time)), Unit)))
    ELSE None

\* the ray met with the plane
PlaneSolve(pl, ray) ==
    The({IF RIsZero(divisor) THEN None
         ELSE The({PlaneHit(pl, ray, time) :
                   time \in {RDiv(RNeg(Dot(PSub(ray.start, pl.origin), pl.normal)),
                                  divisor)}}) :
         divisor \in {Dot(ray.dir, pl.normal)}})

\* PlaneIntersect without the check of previous
PlaneIntersectUnguarded(pl, ray, previous) == PlaneSolve(pl, ray)

PlaneIntersect(pl, ray, previous) ==
    IF IsSome(previous) THEN None ELSE PlaneSolve(pl, ray)

\* Intersection::map_dist, given the distribution func(self.reflection)
MapDist(i, reflection) == Intersection(i.time, i.emitted, reflection)

\* (aid, bid): the previous identity routed to the side it tags
PairRoute(previous) ==
    IF previous = None THEN <<None, None>>
    ELSE IF Unwrap(previous).opt = "OptA" THEN <<Some(Unwrap(previous).inner), None>>
    ELSE <<None, Some(Unwrap(previous).inner)>>

\* ListRoute handing the previous identity to every slot of the list
ListRouteAny(previous, id) ==
    IF IsSome(previous) THEN Some(Unwrap(previous).obj) ELSE None

\* prev: the previous identity handed to the list slot id
ListRoute(previous, id) ==
    IF IsSome(previous)
    THEN IF Unwrap(previous).index = id THEN Some(Unwrap(previous).obj) ELSE None
    ELSE None

\* PairChoose with the comparison of the two times turned round
PairChooseFarther(ra, rb) ==
    LET ai == Unwrap(ra)
        bi == Unwrap(rb)
    IN  IF IsSome(ra) /\ IsSome(rb)
        THEN IF RGt(ai.time, bi.time)
             THEN Some(MapDist(ai, Choice("OptA", ai.reflection)))
             ELSE Some(MapDist(bi, Choice("OptB", bi.reflection)))
        ELSE IF IsSome(ra) THEN Some(MapDist(ai, Choice("OptA", ai.reflection)))
        ELSE IF IsSome(rb) THEN Some(MapDist(bi, Choice("OptB", bi.reflection)))
        ELSE None

PairChoose(ra, rb) ==
    LET ai == Unwrap(ra)
        bi == Unwrap(rb)
    IN  IF IsSome(ra) /\ IsSome(rb)
        THEN IF RLt(ai.time, bi.time)
             THEN Some(MapDist(ai, Choice("OptA", ai.reflection)))
             ELSE Some(MapDist(bi, Choice("OptB", bi.reflection)))
        ELSE IF IsSome(ra) THEN Some(MapDist(ai, Choice("OptA", ai.reflection)))
        ELSE IF IsSome(rb) THEN Some(MapDist(bi, Choice("OptB", bi.reflection)))
        ELSE None

\* one turn of the list loop: best after looking at the slot's result
ListBest(best, id, r) ==
    IF IsSome(r)
    THEN LET intersection == Unwrap(r)
             new_best == IF IsSome(best)
                         THEN RLt(intersection.time, Unwrap(best).time)
                         ELSE TRUE
         IN  IF new_best
             THEN Some(MapDist(intersection, TagObject(id, intersection.reflection)))
             ELSE best
    ELSE best

RECURSIVE Intersect(_, _, _)
RECURSIVE ListLoop(_, _, _, _, _)

PairIntersect(node, ray, previous) ==
    LET ids == PairRoute(previous)
    IN  The({PairChoose(ra, rb) : ra \in {Intersect(node.a, ray, ids[1])},
                                  rb \in {Intersect(node.b, ray, ids[2])}})

\* slots id .. len-1 of the list (id counts from 0, as enumerate() does)
ListLoop(items, ray, previous, id, best) ==
    IF id >= Len(items) THEN best
    ELSE The({ListLoop(items, ray, previous, id + 1, ListBest(b, id, r)) :
              b \in {best},
              r \in {Intersect(items[id + 1], ray, ListRoute(previous, id))}})

ListIntersect(node, ray, previous) == ListLoop(node.items, ray, previous, 0, None)

RefIntersect(node, ray, previous) == Intersect(node.inner, ray, previous)

Intersect(node, ray, previous) ==
    CASE node.kind = "Sphere" -> SphereIntersect(node, ray, previous)
      [] node.kind = "Plane" -> PlaneIntersect(node, ray, previous)
      [] node.kind = "Pair" -> PairIntersect(node, ray, previous)
      [] node.kind = "List" -> ListIntersect(node, ray, previous)
      [] node.kind = "Ref" -> RefIntersect(node, ray, previous)

(***************************************************************************)
(* The explored domain                                                     *)
(***************************************************************************)
\* every sphere of the tree has a negative discriminant or a rational root
RECURSIVE Representable(_, _)
Representable(node, ray) ==
    CASE node.kind = "Sphere" ->
            RLt(Descrim(node, ray), R(0)) \/ HasRSqrt(Descrim(node, ray))
      [] node.kind = "Plane" -> TRUE
      [] node.kind = "Pair" -> Representable(node.a, ray) /\ Representable(node.b, ray)
      [] node.kind = "List" ->
            \A i \in 1..Len(node.items) : Representable(node.items[i], ray)
      [] node.kind = "Ref" -> Representable(node.inner, ray)

\* the values of the node's ObjectId type
RECURSIVE Identities(_)
Identities(node) ==
    CASE node.kind = "Sphere" -> {Inside, Outside}
      [] node.kind = "Plane" -> {Unit}
      [] node.kind = "Pair" ->
            {OptA(i) : i \in Identities(node.a)} \cup {OptB(i) : i \in Identities(node.b)}
      [] node.kind = "List" ->
            UNION {{[index |-> k - 1, obj |-> i] : i \in Identities(node.items[k])} :
                   k \in 1..Len(node.items)}
      [] node.kind = "Ref" -> Identities(node.inner)

Diffuse == "Diffuse"
Specular == "Specular"

\* coordinates of the rays a query is tried on
MaxStart == 2

QSphere == Sphere(Point3(0, 0, 0), R(1), Material(Diffuse, R(0)))
QMirror == Sphere(Point3(0, 0, 3), R(1), Material(Specular, R(0)))
QPlaneZ == Plane(Point3(0, 0, 1), Vec3(0, 0, -1), Material(Diffuse, R(0)))
QPlaneY == Plane(Point3(0, -1, 0), Vec3(0, 2, 0), Material(Specular, R(0)))

QueryScenes ==
    { QSphere, QPlaneZ,
      Pair(QSphere, QPlaneZ),
      List(<<QMirror, QSphere>>),
      Pair(List(<<QPlaneZ, QPlaneY>>), Ref(QMirror)) }

QueryRays ==
    { Ray3(Point3(sx, 0, sz), Vec3(dx, dy, dz)) :
        sx \in -MaxStart..MaxStart, sz \in -MaxStart..MaxStart,
        dx \in {-1, 0, 1}, dy \in {-1, 0, 1}, dz \in {-1, 0, 1} }

QueryTapes == { <<R(0), R(0)>>, <<RQ(1, 2), RQ(1, 4)>> }

(***************************************************************************)
(* State                                                                   *)
(***************************************************************************)
VARIABLES
    \* one scene query, and the same query repeated with the identity it returned
    qscene, qray, qprev, qres, qid, qres2, qphase,
    \* one call of Reflection::reflect: its arguments, the distribution it
    \* returned, the samples taken from it and the random source's state
    refl, incoming, normal, point, object, dist, samples, rtape,
    \* one pixel of a worker: the scene, the pixel's camera coordinates, the
    \* locals of the sample loop and of the bounce loop, the number of values
    \* the worker's random source has handed out, and the pixel written
    scene, cx, cy, rays_per_pixel, paths_done, total_light,
    ray, prev_object, scale, intersection, sampled, roulette, rng, pixel, pc,
    \* main: the image's size, the number of worker threads, the chunk size, the
    \* output buffer, the worker threads spawned so far (each with its x, y and
    \* the number of pixels of its chunk it has been through), how many of them
    \* main has joined, the buffer as saved, and main's position; writers is
    \* the list, for each index of the buffer, of the workers that wrote to it
    imgx, imgy, num_threads, chunk_size, img_data, threads, joined, saved, main,
    writers

qvars == <<qscene, qray, qprev, qres, qid, qres2, qphase>>
rvars == <<refl, incoming, normal, point, object, dist, samples, rtape>>
tvars == <<imgx, imgy, num_threads, chunk_size, img_data, threads, joined, saved,
           main, writers>>
pvars == <<scene, cx, cy, rays_per_pixel, paths_done, total_light,
           ray, prev_object, scale, intersection, sampled, roulette, rng, pixel, pc>>
vars == <<qvars, rvars, pvars, tvars>>

(***************************************************************************)
(* A scene query: Scene::intersect on a node, then again with the same ray *)
(* and the identity sampled from the first hit                             *)
(***************************************************************************)
TilesIdle ==
    /\ imgx = 0 /\ imgy = 0 /\ num_threads = 0 /\ chunk_size = 0
    /\ img_data = <<>> /\ threads = <<>> /\ joined = 0 /\ saved = None
    /\ main = "idle" /\ writers = <<>>

ReflectIdle ==
    /\ refl = None /\ incoming = None /\ normal = None /\ point = None
    /\ object = None /\ dist = None /\ samples = <<>> /\ rtape = <<>>

PathIdle ==
    /\ scene = None /\ cx = None /\ cy = None /\ rays_per_pixel = 0
    /\ paths_done = 0 /\ total_light = None /\ ray = None /\ prev_object = None
    /\ scale = None /\ intersection = None /\ sampled = None /\ roulette = None
    /\ rng = 0 /\ pixel = None /\ pc = "idle"

QueryInit ==
    /\ ReflectIdle
    /\ PathIdle
    /\ TilesIdle
    /\ qscene \in QueryScenes
    /\ qray \in QueryRays
    /\ Representable(qscene, qray)
    /\ qprev \in {None} \cup {Some(i) : i \in Identities(qscene)}
    /\ qres = None
    /\ qid = None
    /\ qres2 = None
    /\ qphase = "ready"

QueryIdle ==
    /\ qscene = None /\ qray = None /\ qprev = None /\ qres = None
    /\ qid = None /\ qres2 = None /\ qphase = "idle"

Query ==
    /\ qphase = "ready"
    /\ qres' = Intersect(qscene, qray, qprev)
    /\ qphase' = "queried"
    /\ UNCHANGED <<qscene, qray, qprev, qid, qres2, rvars, pvars, tvars>>

Requery ==
    /\ qphase = "queried"
    /\ IsSome(qres)
    /\ \E tape \in QueryTapes :
          /\ SampleRepresentable(Unwrap(qres).reflection, tape)
          /\ qid' = Some(Sample(Unwrap(qres).reflection, tape).out[3])
    /\ qres2' = Intersect(qscene, qray, qid')
    /\ qphase' = "requeried"
    /\ UNCHANGED <<qscene, qray, qprev, qres, rvars, pvars, tvars>>

QueryNext == Query \/ Requery

SpecQuery == QueryInit /\ [][QueryNext]_vars

(***************************************************************************)
(* Properties of a scene query                                             *)
(***************************************************************************)
Queried == qphase \in {"queried", "requeried"}

\* the sub-nodes of a pair or a list, in order
SubNodes(node) == IF node.kind = "Pair" THEN <<node.a, node.b>> ELSE node.items

\* what the k-th sub-node is to be asked: the previous identity when it tags
\* that sub-node, nothing otherwise
SubPrevious(node, previous, k) ==
    IF previous = None THEN None
    ELSE IF node.kind = "Pair"
         THEN IF Unwrap(previous).opt = (IF k = 1 THEN "OptA" ELSE "OptB")
              THEN Some(Unwrap(previous).inner) ELSE None
         ELSE IF Unwrap(previous).index = k - 1
              THEN Some(Unwrap(previous).obj) ELSE None

SubResult(k) == Intersect(SubNodes(qscene)[k], qray, SubPrevious(qscene, qprev, k))
SubHits == {k \in 1..Len(SubNodes(qscene)) : IsSome(SubResult(k))}

\* C1: a pair or a list returns a hit at the least of its sub-nodes' hit times,
\* each sub-node asked with the previous identity routed to it, and returns no
\* hit exactly when every sub-node returns none.
C1_NearestHit ==
    (Queried /\ qscene.kind \in {"Pair", "List"}) =>
        /\ (qres = None) <=> (SubHits = {})
        /\ IsSome(qres) =>
              /\ \E k \in SubHits : Unwrap(SubResult(k)).time = Unwrap(qres).time
              /\ \A k \in SubHits : RLe(Unwrap(qres).time, Unwrap(SubResult(k)).time)

\* a pair whose A side is hit later than its B side, with a previous identity given
C1_Witness ==
    /\ Queried /\ qscene.kind = "Pair" /\ IsSome(qprev) /\ IsSome(qres)
    /\ SubHits = {1, 2}
    /\ RLt(Unwrap(SubResult(2)).time, Unwrap(SubResult(1)).time)

\* C2: a plane returns no hit whenever a previous identity is given; asked again
\* with the same ray and the identity it has just returned, it returns no hit.
C2_PlaneGuard ==
    /\ (Queried /\ qscene.kind = "Plane" /\ IsSome(qprev)) => qres = None
    /\ (qphase = "requeried" /\ qscene.kind = "Plane") => qres2 = None

\* a plane that was hit, then asked again with the returned identity
C2_Witness ==
    /\ qphase = "requeried" /\ qscene.kind = "Plane"
    /\ qprev = None /\ IsSome(qres) /\ qid = Some(Unit)

\* the ObjectId a hit hands on: the one its distribution returns when sampled
HitIdentity(i) == Sample(i.reflection, <<R(0), R(0)>>).out[3]

FirstSphereHit ==
    qphase = "requeried" /\ qscene.kind = "Sphere" /\ qprev = None /\ IsSome(qres)

\* C3 as stated: a sphere hit at time t with identity id, asked again with the
\* same ray and previous = id, returns no hit, or a hit later than t, or a hit
\* classified differently from id.
C3_Original ==
    FirstSphereHit =>
        \/ qres2 = None
        \/ RGt(Unwrap(qres2).time, Unwrap(qres).time)
        \/ HitIdentity(Unwrap(qres2)) # Unwrap(qid)

\* C3 amended: asked again with previous = Outside the sphere returns no hit;
\* asked again with previous = Inside (the ray starts strictly inside) it returns
\* the same hit again, at the same time t and classified Inside. It never returns
\* a nearer hit.
C3_Amended ==
    FirstSphereHit =>
        /\ qid \in {Some(Inside), Some(Outside)}
        /\ qid = Some(Outside) => qres2 = None
        /\ qid = Some(Inside) =>
              /\ RLt(SphereC(qscene, qray), R(0))
              /\ IsSome(qres2)
              /\ Unwrap(qres2).time = Unwrap(qres).time
              /\ HitIdentity(Unwrap(qres2)) = Inside
        /\ IsSome(qres2) => RLe(Unwrap(qres).time, Unwrap(qres2).time)

\* a ray from inside the sphere, asked again with previous = Inside
C3_Witness == FirstSphereHit /\ qid = Some(Inside) /\ IsSome(qres2)

(***************************************************************************)
(* A reflection: Reflection::reflect, then Distribution::sample on what it *)
(* returned, any number of times, from any state of the random source      *)
(***************************************************************************)
\* how many samples are taken from one distribution
MaxSamples == 2

\* the uniform values the random source hands out
Uniforms == {R(0), RQ(1, 2)}

UnitSteps == {Vec3(x, y, z) : x \in {-1, 0, 1}, y \in {-1, 0, 1}, z \in {-1, 0, 1}}
              \ {Vec3(0, 0, 0)}
Normals == {Vec3(0, 0, 1), Vec3(0, 2, 0), Vec3(-1, 0, 0), Vec3(1, 1, 0), Vec3(1, 2, 2)}

ReflectInit ==
    /\ QueryIdle
    /\ PathIdle
    /\ TilesIdle
    /\ refl \in {Diffuse, Specular}
    /\ incoming \in UnitSteps
    /\ normal \in Normals
    /\ point = Point3(1, 0, -1)
    /\ object \in {Outside, OptA([index |-> 1, obj |-> Unit])}
    /\ dist = None
    /\ samples = <<>>
    /\ rtape \in [1..(2 * MaxSamples) -> Uniforms]

ReflectCall ==
    /\ dist = None
    /\ dist' = Some(Reflect(refl, incoming, normal, point, object))
    /\ UNCHANGED <<refl, incoming, normal, point, object, samples, rtape, qvars, pvars, tvars>>

SampleCall ==
    /\ IsSome(dist)
    /\ Len(samples) < MaxSamples
    /\ SampleRepresentable(Unwrap(dist), rtape)
    /\ LET s == Sample(Unwrap(dist), rtape)
       IN  /\ samples' = Append(samples, s.out)
           /\ rtape' = s.rest
    /\ UNCHANGED <<refl, incoming, normal, point, object, dist, qvars, pvars, tvars>>

ReflectNext == ReflectCall \/ SampleCall

SpecReflect == ReflectInit /\ [][ReflectNext]_vars

\* the mirror reflection of d about n: d - 2 (d.n / |n|^2) n
Mirror(d, n) == VSub(d, VMul(n, RMul(R(2), RDiv(Dot(d, n), Mag2(n)))))

\* C5: the outgoing direction of Specular.reflect is the mirror reflection of the
\* incoming direction about the normal, or its negation.
C5_MirrorReflection ==
    (refl = Specular /\ IsSome(dist)) =>
        LET out == Unwrap(dist).value[2].dir
        IN  out = Mirror(incoming, normal) \/ out = VNeg(Mirror(incoming, normal))

\* C6: however often the Specular distribution is sampled, from any state of the
\* random source, each sample is weight 1, the same outgoing ray and the caller's
\* identity, and the random source is left as it was.
C6_SpecularDeterminism ==
    (refl = Specular /\ IsSome(dist)) =>
        /\ \A k \in 1..Len(samples) :
              /\ samples[k][1] = R(1)
              /\ samples[k][2] = samples[1][2]
              /\ samples[k][2].start = point
              /\ samples[k][3] = object
        /\ Len(rtape) = 2 * MaxSamples

\* a Specular distribution sampled as often as the model allows
C6_Witness == refl = Specular /\ IsSome(dist) /\ Len(samples) = MaxSamples

(***************************************************************************)
(* The path integrator: the sample loop and the bounce loop of one pixel   *)
(* (rays.rs, main)                                                         *)
(***************************************************************************)
\* the most values one worker's random source hands out in an explored run
MaxDraws == 7
\* the largest numerator or denominator of a ray an explored run follows
MaxNum == 25
\* the most paths traced for one pixel
MaxRays == 2

\* the roulette threshold: scale > 0.2
Threshold == RQ(1, 5)

\* values of [0,1) the random source hands out: as z they give -1/2, 0, 7/25
\* and 3/5, as angle the quarter and the half turn
PathUniforms == {RQ(1, 4), RQ(1, 2), RQ(16, 25), RQ(4, 5)}
\* the tapes of n values
PathTapes(n) == [1..n -> PathUniforms]

\* the camera ray of the pixel with camera coordinates (cx, cy)
CameraRay(x, y) == Ray3(Point3(0, 0, -8), <<x, y, R(8)>>)
CameraCoords == {R(-1), R(0)}

\* one emitting sphere in front of the camera
EmitterScene == Sphere(Point3(0, 0, 5), R(1), Material(Diffuse, R(10)))

\* two mirror spheres that both touch the camera's axis
MirrorA == Sphere(Point3(1, 0, 3), R(1), Material(Specular, R(0)))
MirrorB == Sphere(Point3(-1, 0, -12), R(1), Material(Specular, R(0)))
MirrorScene == List(<<MirrorA, MirrorB>>)

\* a room shaped like the scene of main: ((spheres, mirror), planes)
RoomBall == Sphere(Point3(0, 0, 2), R(1), Material(Diffuse, R(0)))
RoomMirror == Sphere(Point3(3, 0, 2), R(1), Material(Specular, R(0)))
RoomWall == Plane(Point3(0, 0, 8), Vec3(0, 0, -1), Material(Diffuse, R(0)))
RoomCeiling == Plane(Point3(0, 2, 0), Vec3(0, -1, 0), Material(Diffuse, R(3)))
RoomFloor == Plane(Point3(0, -3, 0), Vec3(0, 1, 0), Material(Diffuse, R(0)))
RoomBack == Plane(Point3(0, 0, -10), Vec3(0, 0, 1), Material(Diffuse, R(0)))
RoomScene ==
    Pair(Pair(List(<<RoomBall>>), Ref(RoomMirror)),
         List(<<RoomWall, RoomCeiling, RoomFloor, RoomBack>>))

PathScenes == {EmitterScene, MirrorScene, RoomScene}

Numbers(r) == {Abs(r.start[i][j]) : i \in 1..3, j \in 1..2}
                \cup {Abs(r.dir[i][j]) : i \in 1..3, j \in 1..2}
InRange(r) == \A n \in Numbers(r) : n <= MaxNum

\* the run can be followed one more turn of the bounce loop
Explorable ==
    /\ InRange(ray)
    /\ Representable(scene, ray)
    /\ rng + 3 <= MaxDraws

\* Accumulate adding the scale to the emitted light instead of scaling it
AccumulateSum(total, s, emitted) == RAdd(total, RAdd(s, emitted))

\* total_light += scale * intersection.emitted
Accumulate(total, s, emitted) == RAdd(total, RMul(s, emitted))

\* if scale > 0.2
Healthy(s) == RGt(s, Threshold)

\* NextScale multiplying whatever the scale is
NextScaleAlways(s, reflected) == RMul(s, reflected)

\* NextScale with the test against 0 in place of 0.2
NextScaleWhilePositive(s, reflected) == IF RGt(s, R(0)) THEN RMul(s, reflected) ELSE s

\* scale *= reflected, done only while scale > 0.2
NextScale(s, reflected) == IF Healthy(s) THEN RMul(s, reflected) ELSE s

\* else if rng.next_f32() > reflected { break }
RouletteFails(draw, reflected) == RGt(draw, reflected)

Clamp(val) == IF RGt(val, R(1)) THEN R(1) ELSE IF RLt(val, R(0)) THEN R(0) ELSE val

\* (clamp(total_light / rays_per_pixel as f32) * 255.) as u8
Quantize(total, n) ==
    LET v == RMul(Clamp(RDiv(total, R(n))), R(255))
    IN  v[1] \div v[2]

PathInit ==
    /\ QueryIdle
    /\ ReflectIdle
    /\ TilesIdle
    /\ scene \in PathScenes
    /\ cx \in CameraCoords
    /\ cy \in CameraCoords
    /\ rays_per_pixel \in 1..MaxRays
    /\ paths_done = 0
    /\ total_light = R(0)
    /\ ray = CameraRay(cx, cy)
    /\ prev_object = None
    /\ scale = R(1)
    /\ intersection = None
    /\ sampled = None
    /\ roulette = None
    /\ rng = 0
    /\ pixel = None
    /\ pc = "tracing"

\* if let Some(intersection) = scene.intersect(ray, prev_object), else break
QueryScene ==
    /\ pc = "tracing"
    /\ Explorable
    /\ intersection' = Intersect(scene, ray, prev_object)
    /\ pc' = IF IsSome(intersection') THEN "hit" ELSE "path_end"
    /\ UNCHANGED <<scene, cx, cy, rays_per_pixel, paths_done, total_light, ray,
                   prev_object, scale, sampled, roulette, rng, pixel, qvars, rvars, tvars>>

\* a hit with scale > 0.2: accumulate, sample, scale *= reflected, go on
Bounce ==
    /\ pc = "hit"
    /\ Healthy(scale)
    /\ \E tape \in PathTapes(SampleDraws(Unwrap(intersection).reflection)) :
          /\ SampleRepresentable(Unwrap(intersection).reflection, tape)
          /\ \E s \in {Sample(Unwrap(intersection).reflection, tape)} :
                 /\ total_light' =
                        Accumulate(total_light, scale, Unwrap(intersection).emitted)
                 /\ sampled' = Some(s.out)
                 /\ ray' = s.out[2]
                 /\ prev_object' = Some(s.out[3])
                 /\ scale' = NextScale(scale, s.out[1])
                 /\ roulette' = None
                 /\ rng' = rng + Len(tape)
    /\ pc' = "tracing"
    /\ UNCHANGED <<scene, cx, cy, rays_per_pixel, paths_done, intersection, pixel,
                   qvars, rvars, tvars>>

\* a hit with scale <= 0.2: accumulate, sample, draw one more value; the path
\* goes on with its scale unchanged unless the draw is above the weight
Roulette ==
    /\ pc = "hit"
    /\ ~Healthy(scale)
    /\ \E tape \in PathTapes(SampleDraws(Unwrap(intersection).reflection)),
          draw \in PathUniforms :
          /\ SampleRepresentable(Unwrap(intersection).reflection, tape)
          /\ \E s \in {Sample(Unwrap(intersection).reflection, tape)} :
                 /\ total_light' =
                        Accumulate(total_light, scale, Unwrap(intersection).emitted)
                 /\ sampled' = Some(s.out)
                 /\ ray' = s.out[2]
                 /\ prev_object' = Some(s.out[3])
                 /\ scale' = NextScale(scale, s.out[1])
                 /\ roulette' = Some(draw)
                 /\ rng' = rng + Len(tape) + 1
                 /\ pc' = IF RouletteFails(draw, s.out[1]) THEN "path_end" ELSE "tracing"
    /\ UNCHANGED <<scene, cx, cy, rays_per_pixel, paths_done, intersection, pixel,
                   qvars, rvars, tvars>>

\* the run leaves the explored domain and is followed no further
Cutoff ==
    /\ pc = "tracing"
    /\ ~Explorable
    /\ pc' = "cutoff"
    /\ UNCHANGED <<scene, cx, cy, rays_per_pixel, paths_done, total_light, ray,
                   prev_object, scale, intersection, sampled, roulette, rng, pixel,
                   qvars, rvars, tvars>>

\* the next turn of for _ in 0..rays_per_pixel: a new path from the camera
NextPath ==
    /\ pc = "path_end"
    /\ paths_done + 1 < rays_per_pixel
    /\ paths_done' = paths_done + 1
    /\ ray' = CameraRay(cx, cy)
    /\ prev_object' = None
    /\ scale' = R(1)
    /\ pc' = "tracing"
    /\ UNCHANGED <<scene, cx, cy, rays_per_pixel, total_light, intersection, sampled,
                   roulette, rng, pixel, qvars, rvars, tvars>>

\* all paths traced: the pixel is written
WritePixel ==
    /\ pc = "path_end"
    /\ paths_done + 1 = rays_per_pixel
    /\ paths_done' = paths_done + 1
    /\ pixel' = Some(Quantize(total_light, rays_per_pixel))
    /\ pc' = "done"
    /\ UNCHANGED <<scene, cx, cy, rays_per_pixel, total_light, ray, prev_object, scale,
                   intersection, sampled, roulette, rng, qvars, rvars, tvars>>

PathNext == QueryScene \/ Bounce \/ Roulette \/ Cutoff \/ NextPath \/ WritePixel

Spec == PathInit /\ [][PathNext]_vars

\* the bounce loop runs on whenever it can: a worker thread is never suspended
\* for ever
LiveSpec == Spec /\ WF_vars(PathNext)

(***************************************************************************)
(* Properties of the path integrator                                       *)
(***************************************************************************)
\* the place in the scene tree an identity names (side 0 or 1 of a pair, the
\* index in a list), and the primitive's own identity at that place
RECURSIVE IdPath(_)
IdPath(id) ==
    IF "opt" \in DOMAIN id
    THEN <<IF id.opt = "OptA" THEN 0 ELSE 1>> \o IdPath(id.inner)
    ELSE IF "index" \in DOMAIN id THEN <<id.index>> \o IdPath(id.obj)
    ELSE <<>>

RECURSIVE IdLeaf(_)
IdLeaf(id) ==
    IF "opt" \in DOMAIN id THEN IdLeaf(id.inner)
    ELSE IF "index" \in DOMAIN id THEN IdLeaf(id.obj)
    ELSE id

\* the previous identity each primitive of the tree is asked with when the
\* tree is asked with previous
RECURSIVE LeafQueries(_, _, _)
LeafQueries(node, previous, at) ==
    CASE node.kind \in {"Sphere", "Plane"} -> {[at |-> at, previous |-> previous]}
      [] node.kind = "Pair" ->
            LeafQueries(node.a, PairRoute(previous)[1], at \o <<0>>)
                \cup LeafQueries(node.b, PairRoute(previous)[2], at \o <<1>>)
      [] node.kind = "List" ->
            UNION {LeafQueries(node.items[k], ListRoute(previous, k - 1), at \o <<k - 1>>) :
                   k \in 1..Len(node.items)}
      [] node.kind = "Ref" -> LeafQueries(node.inner, previous, at)

GuardThreaded ==
    (pc = "tracing" /\ pc' \in {"hit", "path_end"}) =>
        /\ (/\ IsSome(prev_object)
            /\ IsSome(intersection')
            /\ IdLeaf(Unwrap(prev_object)) \in {Unit, Outside})
              => IdPath(HitIdentity(Unwrap(intersection'))) # IdPath(Unwrap(prev_object))
        /\ \A q \in LeafQueries(scene, prev_object, <<>>) :
              IF IsSome(prev_object) /\ q.at = IdPath(Unwrap(prev_object))
              THEN q.previous = Some(IdLeaf(Unwrap(prev_object)))
              ELSE q.previous = None

\* C4: along a path, a hit on a plane is never followed at once by a hit on the
\* same plane, a hit on a sphere classified Outside never by a hit on the same
\* sphere, and every other primitive of the tree is asked with no previous
\* identity.
C4_GuardThreaded == [][GuardThreaded]_vars

\* a hit that follows a hit on a plane of the room
C4_Witness ==
    /\ scene = RoomScene /\ pc = "hit" /\ IsSome(prev_object)
    /\ IdLeaf(Unwrap(prev_object)) = Unit

\* a hit that follows a hit on a sphere classified Outside
C4_WitnessSphere ==
    /\ scene = RoomScene /\ pc = "hit" /\ IsSome(prev_object)
    /\ IdLeaf(Unwrap(prev_object)) = Outside

RouletteStep ==
    pc = "hit" =>
        LET reflected == Unwrap(sampled')[1]
            new_ray == Unwrap(sampled')[2]
            object1 == Unwrap(sampled')[3]
            taken == SampleDraws(Unwrap(intersection).reflection)
        IN  /\ \E tape \in PathTapes(taken) :
                  /\ SampleRepresentable(Unwrap(intersection).reflection, tape)
                  /\ sampled' = Some(Sample(Unwrap(intersection).reflection, tape).out)
            /\ RGt(scale, Threshold) =>
                  /\ pc' = "tracing"
                  /\ scale' = RMul(scale, reflected)
                  /\ roulette' = None
                  /\ rng' = rng + taken
            /\ ~RGt(scale, Threshold) =>
                  /\ IsSome(roulette')
                  /\ rng' = rng + taken + 1
                  /\ scale' = scale
                  /\ pc' \in {"tracing", "path_end"}
                  /\ pc' = "tracing" <=> RLe(Unwrap(roulette'), reflected)
            /\ pc' = "tracing" => (ray' = new_ray /\ prev_object' = Some(object1))

\* C7: at a hit, with scale > 0.2 the path goes on with scale multiplied by the
\* weight and no roulette draw; with scale <= 0.2 one uniform value is drawn and
\* the path goes on, scale unchanged, exactly when the draw is <= the weight;
\* a path that goes on does so with the sampled ray and identity.
C7_Roulette == [][RouletteStep]_vars

\* a path with a scale strictly between 0 and 0.2 that went on after a
\* roulette draw against a weight strictly between 0 and 1
C7_Witness ==
    /\ pc = "tracing" /\ IsSome(roulette) /\ IsSome(sampled)
    /\ RGt(scale, R(0)) /\ ~RGt(scale, Threshold)
    /\ RGt(Unwrap(sampled)[1], R(0)) /\ RLt(Unwrap(sampled)[1], R(1))

\* a path with such a scale that a roulette draw ended
C7_WitnessBreak ==
    /\ pc = "path_end" /\ IsSome(roulette) /\ IsSome(sampled)
    /\ RGt(scale, R(0)) /\ ~RGt(scale, Threshold)
    /\ RGt(Unwrap(roulette), Unwrap(sampled)[1])

Tracing == pc \in {"tracing", "hit"}

\* C8: every traced path ends after finitely many bounces, in a query that hits
\* nothing or a failed roulette test.
C8_Terminates == Tracing ~> ~Tracing

\* the camera ray starts outside the sphere and points at its centre
AimedAtCentre(s, r) ==
    LET to == PSub(s.center, r.start)
    IN  /\ RGt(SphereC(s, r), R(0))
        /\ RGt(Dot(to, r.dir), R(0))
        /\ RMul(Dot(to, r.dir), Dot(to, r.dir)) = RMul(Mag2(to), Mag2(r.dir))

\* C9: a single sphere emitting 10, a camera ray from outside aimed at its
\* centre and one path per pixel: the path ends with total_light exactly 10,
\* the first query having hit, the second, asked with the returned identity,
\* having found nothing.
C9_DirectHit ==
    (/\ scene = EmitterScene
     /\ AimedAtCentre(scene, CameraRay(cx, cy))
     /\ rays_per_pixel = 1) =>
        /\ pc = "hit" => (scale = R(1) /\ total_light = R(0) /\ prev_object = None)
        /\ pc \in {"path_end", "done"} =>
              /\ total_light = R(10)
              /\ intersection = None
              /\ prev_object = Some(Outside)

\* that pixel written
C9_Witness ==
    /\ scene = EmitterScene /\ AimedAtCentre(scene, CameraRay(cx, cy))
    /\ rays_per_pixel = 1 /\ pc = "done" /\ total_light = R(10)

(***************************************************************************)
(* The scheduling of pixels over worker threads (rays.rs, main)            *)
(***************************************************************************)
\* the largest width and height of an image, and the most worker threads
MaxWidth == 4
MaxHeight == 2
MaxThreads == 3

\* ChunkSize as the length divided by the worker count, rounded up
ChunkSizeCeiling(len, n) == IF len = 0 THEN 1 ELSE (len + n - 1) \div n

\* img_data.len() / num_threads + 1
ChunkSize(len, n) == len \div n + 1

\* chunks_mut(size): how many chunks a buffer of len elements is cut into
NumChunks(len, size) == (len + size - 1) \div size

\* ChunkStart with every chunk but the first moved back by its number
ChunkStartOverlapping(chunk_i, size) == chunk_i * size - chunk_i

\* chunks_mut(size): the index of the buffer where chunk chunk_i begins
ChunkStart(chunk_i, size) == chunk_i * size

\* chunks_mut(size): the length of chunk chunk_i, the last one taking what is left
ChunkLen(chunk_i, len, size) ==
    IF ChunkStart(chunk_i, size) + size <= len THEN size
    ELSE len - ChunkStart(chunk_i, size)

\* a worker whose x and y start at the chunk's own first element
WorkerFromOrigin(chunk_i) == [x |-> 0, y |-> 0, next |-> 0]

\* a worker thread as spawned for chunk chunk_i: x and y from base, and no
\* pixel of the chunk gone through yet
Worker(chunk_i) ==
    LET base == chunk_i * chunk_size
    IN  [x |-> base % imgx, y |-> base \div imgx, next |-> 0]

TilesInit ==
    /\ QueryIdle
    /\ ReflectIdle
    /\ PathIdle
    /\ imgx \in 0..MaxWidth
    /\ imgy \in 0..MaxHeight
    /\ num_threads \in 1..MaxThreads
    /\ img_data = [i \in 1..(imgx * imgy) |-> None]
    /\ writers = [i \in 1..(imgx * imgy) |-> <<>>]
    /\ chunk_size = ChunkSize(imgx * imgy, num_threads)
    /\ threads = <<>>
    /\ joined = 0
    /\ saved = None
    /\ main = "spawning"

\* the next chunk of chunks_mut(chunk_size).enumerate() is handed to a new thread
Spawn ==
    /\ main = "spawning"
    /\ Len(threads) < NumChunks(Len(img_data), chunk_size)
    /\ threads' = Append(threads, Worker(Len(threads)))
    /\ UNCHANGED <<imgx, imgy, num_threads, chunk_size, img_data, joined, saved, main,
                   writers, qvars, rvars, pvars>>

\* the iterator is exhausted: the guards are collected, and dropped at the end
\* of the block
Collect ==
    /\ main = "spawning"
    /\ Len(threads) = NumChunks(Len(img_data), chunk_size)
    /\ main' = "joining"
    /\ UNCHANGED <<imgx, imgy, num_threads, chunk_size, img_data, threads, joined,
                   saved, writers, qvars, rvars, pvars>>

\* one turn of a worker's loop over its chunk: x and y step, the pixel is
\* rendered (its value stands for the coordinates it was rendered with) and
\* written through the chunk's iterator
RenderPixel(chunk_i) ==
    /\ chunk_i < Len(threads)
    /\ LET w == threads[chunk_i + 1]
           wrap == w.x + 1 = imgx
           x1 == IF wrap THEN 0 ELSE w.x + 1
           y1 == IF wrap THEN w.y + 1 ELSE w.y
           index == ChunkStart(chunk_i, chunk_size) + w.next
       IN  /\ w.next < ChunkLen(chunk_i, Len(img_data), chunk_size)
           /\ img_data' = [img_data EXCEPT ![index + 1] = Some([x |-> x1, y |-> y1])]
           /\ writers' = [writers EXCEPT ![index + 1] = Append(@, chunk_i)]
           /\ threads' = [threads EXCEPT ![chunk_i + 1] =
                             [x |-> x1, y |-> y1, next |-> w.next + 1]]
    /\ UNCHANGED <<imgx, imgy, num_threads, chunk_size, joined, saved, main,
                   qvars, rvars, pvars>>

\* Join returning whether or not the thread has gone through its chunk
JoinWithoutWaiting ==
    /\ main = "joining"
    /\ joined < Len(threads)
    /\ joined' = joined + 1
    /\ UNCHANGED <<imgx, imgy, num_threads, chunk_size, img_data, threads, saved, main,
                   writers, qvars, rvars, pvars>>

\* the drop of the next guard returns once its thread has gone through its chunk
Join ==
    /\ main = "joining"
    /\ joined < Len(threads)
    /\ threads[joined + 1].next = ChunkLen(joined, Len(img_data), chunk_size)
    /\ joined' = joined + 1
    /\ UNCHANGED <<imgx, imgy, num_threads, chunk_size, img_data, threads, saved, main,
                   writers, qvars, rvars, pvars>>

\* image::ImageLuma8(imgbuf).save(fout, image::PNG)
Save ==
    /\ main = "joining"
    /\ joined = Len(threads)
    /\ saved' = Some(img_data)
    /\ main' = "saved"
    /\ UNCHANGED <<imgx, imgy, num_threads, chunk_size, img_data, threads, joined,
                   writers, qvars, rvars, pvars>>

TilesNext ==
    \/ Spawn
    \/ Collect
    \/ \E chunk_i \in 0..(MaxThreads - 1) : RenderPixel(chunk_i)
    \/ Join
    \/ Save

SpecTiles == TilesInit /\ [][TilesNext]_vars

\* the indices of the buffer that make up chunk chunk_i
ChunkRange(chunk_i) ==
    {ChunkStart(chunk_i, chunk_size) + k :
        k \in 0..(ChunkLen(chunk_i, Len(img_data), chunk_size) - 1)}

ChunkIds == 0..(NumChunks(Len(img_data), chunk_size) - 1)

\* C10: the chunks are pairwise disjoint runs of consecutive indices that
\* together make up the buffer; a pixel is written only by the worker of the
\* chunk it lies in and never twice, and when the image is saved every pixel
\* has been written exactly once.
C10_ChunksPartition ==
    main # "idle" =>
        /\ \A i \in ChunkIds, j \in ChunkIds : i # j => ChunkRange(i) \cap ChunkRange(j) = {}
        /\ UNION {ChunkRange(i) : i \in ChunkIds} = 0..(Len(img_data) - 1)
        /\ \A k \in 1..Len(img_data) :
              /\ Len(writers[k]) <= 1
              /\ \A n \in 1..Len(writers[k]) : (k - 1) \in ChunkRange(writers[k][n])
              /\ main = "saved" => Len(writers[k]) = 1

\* an image cut into three chunks, saved
C10_Witness ==
    /\ main = "saved"
    /\ Len(threads) >= 3
    /\ Len(img_data) >= 4
    /\ \A k \in 1..Len(img_data) : Len(writers[k]) = 1

\* every chunk has been handed to a thread
AllSpawned == main \in {"joining", "saved"}

\* the number of pixels the thread of chunk chunk_i goes through
Pixels(chunk_i) == ChunkLen(chunk_i, Len(img_data), chunk_size)

\* C11 as stated: there are exactly num_threads chunks, all but the last of one
\* size and the last at least as large as the others.
C11_Original ==
    AllSpawned =>
        /\ Len(threads) = num_threads
        /\ \A i \in 0..(Len(threads) - 2) :
              /\ Pixels(i) = Pixels(0)
              /\ Pixels(Len(threads) - 1) >= Pixels(i)

\* C11 amended: there are at most num_threads chunks (none for an empty buffer,
\* at least one otherwise); all but the last hold len / num_threads + 1 pixels
\* and the last holds at least one pixel and at most that many.
C11_Amended ==
    AllSpawned =>
        /\ Len(threads) <= num_threads
        /\ Len(threads) = 0 <=> Len(img_data) = 0
        /\ \A i \in 0..(Len(threads) - 2) :
              Pixels(i) = Len(img_data) \div num_threads + 1
        /\ Len(threads) > 0 =>
              /\ Pixels(Len(threads) - 1) >= 1
              /\ Pixels(Len(threads) - 1) <= Len(img_data) \div num_threads + 1
        /\ main = "saved" => \A i \in 0..(Len(threads) - 1) : threads[i + 1].next = Pixels(i)

\* an image saved whose chunks are fewer than the workers asked for, the last
\* one shorter than the others
C11_Witness ==
    /\ main = "saved"
    /\ Len(threads) >= 2
    /\ Len(threads) < num_threads
    /\ Pixels(Len(threads) - 1) < Pixels(0)

\* the thread of chunk chunk_i has gone through its whole chunk
Finished(chunk_i) == threads[chunk_i + 1].next = Pixels(chunk_i)

\* C12: no guard is dropped before every chunk has its thread; the buffer is
\* saved only once every thread has gone through its whole chunk and every
\* pixel is written, and what is saved is the buffer as it then stays.
C12_SaveAfterWorkers ==
    main # "idle" =>
        /\ joined > 0 => AllSpawned
        /\ AllSpawned => Len(threads) = NumChunks(Len(img_data), chunk_size)
        /\ \A i \in 0..(joined - 1) : Finished(i)
        /\ main # "saved" => saved = None
        /\ main = "saved" =>
              /\ \A i \in 0..(Len(threads) - 1) : Finished(i)
              /\ \A k \in 1..Len(img_data) : IsSome(img_data[k])
              /\ saved = Some(img_data)

\* an image of several chunks, saved
C12_Witness ==
    /\ main = "saved"
    /\ joined >= 2
    /\ joined = Len(threads)
    /\ saved = Some(img_data)

\* two threads both part of the way through their chunks while main is still
\* handing out chunks
C12_WitnessConcurrent ==
    /\ main = "spawning"
    /\ \E i \in 0..(Len(threads) - 1), j \in 0..(Len(threads) - 1) :
          /\ i # j
          /\ threads[i + 1].next > 0 /\ ~Finished(i)
          /\ threads[j + 1].next > 0 /\ ~Finished(j)

\* scalex, scaley
ScaleX == RDiv(R(4), R(imgx))
ScaleY == RDiv(R(4), R(imgy))

\* the camera coordinates a pixel rendered at grid coordinates p is given
Camera(p) ==
    [cx |-> RSub(RMul(R(p.x), ScaleX), R(2)),
     cy |-> RNeg(RSub(RMul(R(p.y), ScaleY), R(2)))]

\* what x and y are after n turns of a loop that began at 0, 0: a function of n
\* and the width alone
Stepped(n) == [x |-> n % imgx, y |-> n \div imgx]

\* C13: whichever thread wrote it, in whichever chunk and at whichever moment,
\* the pixel at a flat index was rendered with camera coordinates that are a
\* function of the index and the image's dimensions alone.
C13_CoordinatesIndependent ==
    \A k \in 1..Len(img_data) :
        IsSome(img_data[k]) =>
            /\ Unwrap(img_data[k]) = Stepped(k)
            /\ Camera(Unwrap(img_data[k])) = Camera(Stepped(k))
            /\ Len(writers[k]) = 1

\* a saved image of several rows and several chunks, where a chunk begins in
\* the middle of a row
C13_Witness ==
    /\ main = "saved"
    /\ imgx >= 2 /\ imgy >= 2
    /\ Len(threads) >= 2
    /\ chunk_size % imgx # 0
    /\ \E k \in 1..Len(img_data) :
          /\ writers[k] # <<0>>
          /\ Camera(Unwrap(img_data[k])).cx # R(-2)

(***************************************************************************)
(* Or: a distribution built by Distribution::or, sampled any number of     *)
(* times from any state of the random source                               *)
(***************************************************************************)
\* a distribution that takes nothing from the random source, and one that takes two values
OrConst == Const(<<R(1), Ray3(Point3(1, 0, -1), Vec3(0, 1, 0)), Outside>>)
OrDiffuse == DiffuseDist(Point3(1, 0, -1), Vec3(0, 0, 1), Inside)

OrProbs == {R(0), RQ(1, 2), R(1)}

OrDists ==
    {Or(a, b, p) : a \in {OrConst, OrDiffuse}, b \in {OrConst, OrDiffuse}, p \in OrProbs}
    \cup {Or(Or(OrConst, OrDiffuse, RQ(1, 2)), OrConst, RQ(1, 2))}

OrInit ==
    /\ QueryIdle
    /\ PathIdle
    /\ TilesIdle
    /\ refl = None /\ incoming = None /\ normal = None /\ point = None /\ object = None
    /\ dist \in {Some(d) : d \in OrDists}
    /\ samples = <<>>
    /\ rtape \in [1..(3 * MaxSamples) -> Uniforms]

OrNext == SampleCall

SpecOr == OrInit /\ [][OrNext]_vars

\* the distribution Or(a, b, pB) is sampled
OrSampled == IsSome(dist) /\ Unwrap(dist).kind = "Or" /\ samples' # samples

\* the sub-distribution the value u selects
OrChosen(u) == IF RLt(u, Unwrap(dist).prob_2) THEN Unwrap(dist).inner_2
               ELSE Unwrap(dist).inner_1

\* how many values a sub-distribution takes from a random source that begins
\* with tape
RECURSIVE Draws(_, _)
Draws(d, tape) ==
    CASE d.kind = "Const" -> 0
      [] d.kind = "DiffuseDist" -> 2
      [] d.kind = "Or" -> 1 + Draws(IF RLt(tape[1], d.prob_2) THEN d.inner_2 ELSE d.inner_1,
                                    Tail(tape))

\* C14: a sample of Or(a, b, pB) takes the first value u of the random source,
\* then is the sample of b if u < pB and of a otherwise, drawn from the values
\* that follow u; the random source has handed out u and what the chosen
\* sub-distribution takes, nothing more.
C14_OrSample ==
    [][OrSampled =>
          LET chosen == OrChosen(rtape[1])
              after == Tail(rtape)
              n == Draws(chosen, after)
          IN  /\ samples' = Append(samples, Sample(chosen, after).out)
              /\ chosen.kind = "Const" => samples'[Len(samples')] = chosen.value
              /\ chosen.kind = "DiffuseDist" =>
                    samples'[Len(samples')] = DiffuseSample(chosen, <<rtape[2], rtape[3]>>).out
              /\ rtape' = SubSeq(rtape, 2 + n, Len(rtape))]_vars

\* Or(OrConst, OrDiffuse, 1/2) sampled twice, once from each side
C14_Witness ==
    /\ dist = Some(Or(OrConst, OrDiffuse, RQ(1, 2)))
    /\ Len(samples) = 2
    /\ samples[1] = OrConst.value
    /\ samples[2] # OrConst.value
    /\ Len(rtape) = 3 * MaxSamples - 4

(***************************************************************************)
(* The root a sphere returns                                               *)
(***************************************************************************)
\* a sphere alone has been asked
SphereQueried == Queried /\ qscene.kind = "Sphere"

\* a*t^2 + b*t + c
Quadratic(t) ==
    RAdd(RAdd(RMul(SphereA(qscene, qray), RMul(t, t)), RMul(SphereB(qscene, qray), t)),
         SphereC(qscene, qray))

\* the root of the quadratic that is not t (the two roots sum to -b/a)
OtherRoot(t) == RSub(RDiv(RNeg(SphereB(qscene, qray)), SphereA(qscene, qray)), t)

\* t is the least root of the quadratic that is greater than 0
SmallestPositiveRoot(t) ==
    /\ RIsZero(Quadratic(t))
    /\ RGt(t, R(0))
    /\ RGt(OtherRoot(t), R(0)) => RLe(t, OtherRoot(t))

\* t is the greater root of the quadratic, and is greater than 0
LargerRootPositive(t) ==
    /\ RIsZero(Quadratic(t))
    /\ RGt(t, R(0))
    /\ RLe(OtherRoot(t), t)

NoHitCases ==
    /\ (SphereQueried /\ qprev = Some(Outside)) => qres = None
    /\ (SphereQueried /\ RLt(Descrim(qscene, qray), R(0))) => qres = None

\* C15 as stated: no hit when previous = Outside or the discriminant is
\* negative; every hit returned, with no previous identity or with previous =
\* Inside, is at the smallest strictly positive root of the quadratic.
C15_Original ==
    /\ NoHitCases
    /\ (SphereQueried /\ IsSome(qres)) => SmallestPositiveRoot(Unwrap(qres).time)

\* C15 amended: no hit when previous = Outside or the discriminant is negative;
\* with no previous identity a hit is at the smallest strictly positive root;
\* with previous = Inside a hit is at the larger root, which is then strictly
\* positive, whether or not the smaller root is strictly positive too, and
\* there is no hit when the larger root is not strictly positive.
C15_Amended ==
    /\ NoHitCases
    /\ (SphereQueried /\ IsSome(qres)) =>
          /\ qprev \in {None, Some(Inside)}
          /\ qprev = None => SmallestPositiveRoot(Unwrap(qres).time)
          /\ qprev = Some(Inside) => LargerRootPositive(Unwrap(qres).time)
    /\ (SphereQueried /\ qprev = Some(Inside) /\ qres = None
            /\ ~RLt(Descrim(qscene, qray), R(0)) /\ ~RIsZero(SphereA(qscene, qray))) =>
          \A t \in {RDiv(RAdd(RNeg(SphereB(qscene, qray)), RSqrt(Descrim(qscene, qray))),
                         RMul(R(2), SphereA(qscene, qray)))} : ~RGt(t, R(0))

\* a ray that begins outside the sphere and crosses it, asked with previous =
\* Inside: the hit is at the far crossing though the near one lies ahead too
C15_Witness ==
    /\ SphereQueried /\ qprev = Some(Inside) /\ IsSome(qres)
    /\ RGt(OtherRoot(Unwrap(qres).time), R(0))
    /\ RLt(OtherRoot(Unwrap(qres).time), Unwrap(qres).time)

\* a ray that crosses the sphere ahead, asked with no previous identity
C15_WitnessNear ==
    /\ SphereQueried /\ qprev = None /\ IsSome(qres)
    /\ RGt(OtherRoot(Unwrap(qres).time), Unwrap(qres).time)

(***************************************************************************)
(* The scale of a path                                                     *)
(***************************************************************************)
InUnit(x) == RLe(R(0), x) /\ RLe(x, R(1))

\* a step that begins the next path of the pixel
PathStarts == paths_done' # paths_done /\ pc' = "tracing"

\* the weight sampled at this step's hit lies in [0,1]
WeightInUnit == pc = "hit" => InUnit(Unwrap(sampled')[1])

ScaleStep ==
    /\ PathStarts => scale' = R(1)
    /\ (~PathStarts /\ WeightInUnit) =>
          /\ RLe(scale', scale)
          /\ ~RGt(scale, Threshold) => scale' = scale

\* C16: the scale of a path is 1 when the path starts, lies in [0,1] throughout,
\* is never raised by a step of the path, and is left as it is by every step
\* taken once it is <= 0.2, until the next path starts.
C16_ScaleFrozen ==
    /\ scale = R(1)
    /\ [](InUnit(scale))
    /\ [][ScaleStep]_vars

\* a path whose scale two bounces have brought into (0, 0.2], gone past a
\* further hit whose weight would have lowered it again
C16_Witness ==
    /\ pc \in {"tracing", "cutoff"} /\ IsSome(roulette)
    /\ RGt(scale, R(0)) /\ ~RGt(scale, Threshold)
    /\ RLt(RMul(scale, Unwrap(sampled)[1]), scale)

\* a second path of the pixel begun after the first one's scale had dropped
C16_WitnessRestart ==
    /\ pc = "tracing" /\ paths_done = 1 /\ scale = R(1) /\ prev_object = None
    /\ IsSome(sampled) /\ RLt(Unwrap(sampled)[1], R(1))

(***************************************************************************)
(* The grid coordinates of a pixel                                         *)
(***************************************************************************)
\* the position in the image of the element of the buffer at flat index i
Position(i) == [x |-> i % imgx, y |-> i \div imgx]

\* the grid coordinates the image has
Grid == {[x |-> gx, y |-> gy] : gx \in 0..(imgx - 1), gy \in 0..(imgy - 1)}

\* C17: the pixel stored at flat index i (the element k = i + 1 of the buffer)
\* is rendered with x = i mod width and y = i div width, which lie in the grid,
\* and in the saved image each grid coordinate has been rendered exactly once.
C17_GridCoordinates ==
    /\ \A k \in 1..Len(img_data) :
          IsSome(img_data[k]) =>
              /\ Unwrap(img_data[k]) = Position(k - 1)
              /\ Unwrap(img_data[k]) \in Grid
    /\ main = "saved" =>
          \A g \in Grid :
              Cardinality({k \in 1..Len(img_data) : img_data[k] = Some(g)}) = 1

=============================================================================
